---- MODULE Spec2Model ----
(***************************************************************************)
(* A model of the scientific_calculator tool of server.py.                 *)
(*                                                                         *)
(* An expression is a sequence of tokens (the input string split at white  *)
(* space).  The tool normalises the notation, hands the text to Python's   *)
(* eval with the namespace safe_dict, formats the value and turns every    *)
(* exception derived from Exception into an "Error: ..." text.             *)
(*                                                                         *)
(* Numbers are modelled exactly: an int is an integer, a float is either   *)
(* inf, -inf, nan, one of the irrational constants, or a finite value      *)
(* n/d + e * 1e-11 with d a power of two (a dyadic rational, which double  *)
(* arithmetic computes without rounding) and e a count of units of 1e-11   *)
(* that only a literal can introduce.  An operation whose result leaves    *)
(* this exact domain ends in the outcome "Unmodelled", and the model does  *)
(* not offer such expressions to the tool.                                 *)
(***************************************************************************)
EXTENDS Integers, Sequences, FiniteSets, TLC

VARIABLES
    math,        \* the constants of the imported module math (process state)
    phase,       \* "ready" | "returned" | "raised"
    expression,  \* the tokens of the request in hand
    result,      \* the value eval produced (line 89), NoResult if it raised
    handler,     \* the except clause that produced the text, "" if none
    output       \* the text returned to the caller

vars == <<math, phase, expression, result, handler, output>>

-----------------------------------------------------------------------------
(* Bounds of the model. *)

\* Integers and numerators stay within -IntCap..IntCap.
IntCap == 30000
\* Integer literals offered to the tool are 0..MaxLit.
MaxLit == 4

(* Program constants. *)

\* The tolerance 1e-10 of the formatter, in units of 1e-11.
Eps == 10
\* math.exp overflows a double from this argument on.
ExpOverflowArg == 710

(* Fixed-point layout of the text of a float: 4 + 7 decimals. *)
FracScale == 10000
TinyScale == 10000000
MaxDen == 16

-----------------------------------------------------------------------------
(* Integer helpers. *)

Abs(x) == IF x < 0 THEN -x ELSE x

Sign(x) == IF x < 0 THEN -1 ELSE IF x > 0 THEN 1 ELSE 0

RECURSIVE Gcd(_, _)
Gcd(a, b) == IF b = 0 THEN Abs(a) ELSE Gcd(Abs(b), Abs(a) % Abs(b))

\* Python's a // b on integers, b # 0: the floor of the quotient.
PyFloorDiv(a, b) == IF b > 0 THEN a \div b ELSE (-a) \div (-b)

\* Python's a % b on integers, b # 0: the sign of the divisor.
PyMod(a, b) == a - b * PyFloorDiv(a, b)

IsPow2(d) == d \in {1, 2, 4, 8, 16}

-----------------------------------------------------------------------------
(* str(int): the decimal digits. *)

Digit(i) == CASE i = 0 -> "0" [] i = 1 -> "1" [] i = 2 -> "2" [] i = 3 -> "3"
              [] i = 4 -> "4" [] i = 5 -> "5" [] i = 6 -> "6" [] i = 7 -> "7"
              [] i = 8 -> "8" [] i = 9 -> "9"

RECURSIVE NatStr(_)
NatStr(n) == IF n < 10 THEN Digit(n) ELSE NatStr(n \div 10) \o Digit(n % 10)

IntStr(n) == IF n < 0 THEN "-" \o NatStr(-n) ELSE NatStr(n)

\* n as exactly w digits, zero padded on the left.
RECURSIVE PadStr(_, _)
PadStr(n, w) == IF w = 0 THEN "" ELSE PadStr(n \div 10, w - 1) \o Digit(n % 10)

\* The digits of n without its trailing zeros (n > 0).
RECURSIVE StripZeros(_)
StripZeros(n) == IF n % 10 = 0 THEN StripZeros(n \div 10) ELSE n

RECURSIVE TrailingZeros(_)
TrailingZeros(n) == IF n % 10 = 0 THEN 1 + TrailingZeros(n \div 10) ELSE 0

RECURSIVE NumDigits(_)
NumDigits(n) == IF n < 10 THEN 1 ELSE 1 + NumDigits(n \div 10)

RECURSIVE Pow10(_)
Pow10(k) == IF k = 0 THEN 1 ELSE 10 * Pow10(k - 1)

-----------------------------------------------------------------------------
(* Values. *)

NoResult == [t |-> "noresult"]
None == [t |-> "NoneType"]

IntV(n) == [t |-> "int", n |-> n]

\* The finite float n/d + e * 1e-11, in lowest terms.
FloatE(n, d, e) ==
    LET g == Gcd(n, d)
    IN  [t |-> "float", k |-> "fin", n |-> n \div g, d |-> d \div g, e |-> e]

FloatV(n, d) == FloatE(n, d, 0)

Special(k) == [t |-> "float", k |-> k, n |-> 0, d |-> 1, e |-> 0]
Inf == Special("inf")
NInf == Special("ninf")
NaN == Special("nan")

ComplexV(re, im) == [t |-> "complex", re |-> re, im |-> im]

StrV(s) == [t |-> "str", s |-> s]

\* A callable or another object of the interpreter, known by its name.
Obj(t, name) == [t |-> t, name |-> name]

IsInt(v) == v.t = "int"
IsFloat(v) == v.t = "float"
IsComplex(v) == v.t = "complex"
IsNumber(v) == v.t \in {"int", "float", "complex"}
IsFin(f) == f.k = "fin"
IsIrrational(f) == f.k \in {"pi", "e", "tau"}
\* A finite float that double arithmetic handles without rounding.
IsExact(f) == f.k = "fin" /\ f.e = 0

\* float(v) for an int or a float.
ToFloat(v) == IF IsInt(v) THEN FloatV(v.n, 1) ELSE v

\* complex(v) for a number.
ToComplex(v) == IF IsComplex(v) THEN v ELSE ComplexV(ToFloat(v), FloatV(0, 1))

\* The sign of a float that is not nan.
FloatSign(f) ==
    CASE f.k = "inf" -> 1
      [] f.k = "ninf" -> -1
      [] f.k = "fin" -> IF f.n # 0 THEN Sign(f.n) ELSE Sign(f.e)
      [] OTHER -> 1

FloatIsZero(f) == f.k = "fin" /\ f.n = 0 /\ f.e = 0

\* v == 0 for a number.
IsZero(v) ==
    CASE IsInt(v) -> v.n = 0
      [] IsFloat(v) -> FloatIsZero(v)
      [] IsComplex(v) -> FloatIsZero(v.re) /\ FloatIsZero(v.im)

\* type(v).__name__
TypeName(v) ==
    CASE v.t = "builtin" -> "builtin_function_or_method"
      [] v.t = "lambda" -> "function"
      [] v.t = "class" -> "type"
      [] OTHER -> v.t

-----------------------------------------------------------------------------
(* Outcomes of an evaluation step: a value, or an exception. *)

Ok(v) == [exc |-> "", msg |-> "", val |-> v]
Raise(exc, msg) == [exc |-> exc, msg |-> msg, val |-> NoResult]
Unmodelled == Raise("Unmodelled", "")

\* An int result, if it is within the model's range.
OkInt(n) == IF Abs(n) <= IntCap THEN Ok(IntV(n)) ELSE Unmodelled

\* A float result n/d, if it stays dyadic and within the model's range.
OkFloat(n, d) ==
    LET f == FloatV(n, d)
    IN  IF Abs(f.n) <= IntCap /\ f.d <= MaxDen /\ IsPow2(f.d)
        THEN Ok(f) ELSE Unmodelled

-----------------------------------------------------------------------------
(* Python's arithmetic on floats (IEEE doubles), on the exact domain. *)

FloatNeg(a) ==
    CASE a.k = "nan" -> Ok(NaN)
      [] a.k = "inf" -> Ok(NInf)
      [] a.k = "ninf" -> Ok(Inf)
      [] a.k = "fin" -> Ok(FloatE(-a.n, a.d, -a.e))
      [] OTHER -> Unmodelled

FloatAdd(a, b) ==
    CASE IsIrrational(a) \/ IsIrrational(b) -> Unmodelled
      [] a.k = "nan" \/ b.k = "nan" -> Ok(NaN)
      [] a.k = "fin" /\ b.k = "fin" ->
            IF FloatIsZero(b) THEN Ok(a)
            ELSE IF FloatIsZero(a) THEN Ok(b)
            ELSE IF a.e # 0 \/ b.e # 0 THEN Unmodelled
            ELSE OkFloat(a.n * b.d + b.n * a.d, a.d * b.d)
      [] a.k = "fin" -> Ok(b)
      [] b.k = "fin" -> Ok(a)
      [] OTHER -> IF a.k = b.k THEN Ok(a) ELSE Ok(NaN)

FloatSub(a, b) ==
    LET nb == FloatNeg(b)
    IN  IF nb.exc # "" THEN nb ELSE FloatAdd(a, nb.val)

FloatMul(a, b) ==
    CASE IsIrrational(a) \/ IsIrrational(b) -> Unmodelled
      [] a.k = "nan" \/ b.k = "nan" -> Ok(NaN)
      [] a.k = "fin" /\ b.k = "fin" ->
            IF a.e # 0 \/ b.e # 0 THEN Unmodelled
            ELSE OkFloat(a.n * b.n, a.d * b.d)
      [] OTHER ->
            IF FloatIsZero(a) \/ FloatIsZero(b) THEN Ok(NaN)
            ELSE IF FloatSign(a) * FloatSign(b) > 0 THEN Ok(Inf) ELSE Ok(NInf)

\* a / b for floats, b # 0.
FloatTrueDiv(a, b) ==
    CASE IsIrrational(a) \/ IsIrrational(b) -> Unmodelled
      [] a.k = "nan" \/ b.k = "nan" -> Ok(NaN)
      [] a.k = "fin" /\ b.k = "fin" ->
            IF a.e # 0 \/ b.e # 0 THEN Unmodelled
            ELSE OkFloat(a.n * b.d * Sign(b.n), a.d * Abs(b.n))
      [] a.k = "fin" -> Ok(FloatV(0, 1))
      [] b.k = "fin" ->
            IF FloatSign(a) * FloatSign(b) > 0 THEN Ok(Inf) ELSE Ok(NInf)
      [] OTHER -> Ok(NaN)

\* a // b for floats, b # 0.
FloatFloorDiv(a, b) ==
    IF IsExact(a) /\ IsExact(b)
    THEN OkFloat(PyFloorDiv(a.n * b.d, a.d * b.n), 1)
    ELSE Unmodelled

\* a % b for floats, b # 0.
FloatMod(a, b) ==
    IF IsExact(a) /\ IsExact(b)
    THEN LET q == PyFloorDiv(a.n * b.d, a.d * b.n)
         IN  IF Abs(q) > IntCap THEN Unmodelled
             ELSE OkFloat(a.n * b.d - q * b.n * a.d, a.d * b.d)
    ELSE Unmodelled

\* acc * a^b by repeated multiplication; IntCap + 1 once the range is left.
RECURSIVE PowAcc(_, _, _)
PowAcc(a, b, acc) ==
    IF b = 0 THEN acc
    ELSE IF Abs(acc * a) > IntCap THEN IntCap + 1
    ELSE PowAcc(a, b - 1, acc * a)

\* a^b for integers, b >= 0.
IntPow(a, b) ==
    CASE b = 0 -> 1
      [] a = 0 -> 0
      [] a = 1 -> 1
      [] a = -1 -> IF b % 2 = 0 THEN 1 ELSE -1
      [] OTHER -> PowAcc(a, b, 1)

\* a ** b for floats.
FloatPow(a, b) ==
    IF ~(IsExact(a) /\ IsExact(b)) \/ b.d # 1 THEN Unmodelled
    ELSE IF b.n >= 0
    THEN LET pn == IntPow(a.n, b.n)
             pd == IntPow(a.d, b.n)
         IN  IF Abs(pn) > IntCap \/ pd > IntCap THEN Unmodelled
             ELSE OkFloat(pn, pd)
    ELSE IF a.n = 0
    THEN Raise("ZeroDivisionError", "0.0 cannot be raised to a negative power")
    ELSE LET pn == IntPow(a.n, -b.n)
             pd == IntPow(a.d, -b.n)
         IN  IF Abs(pn) > IntCap \/ pd > IntCap THEN Unmodelled
             ELSE OkFloat(pd * Sign(pn), Abs(pn))

-----------------------------------------------------------------------------
(* Python's binary and unary operators on values. *)

OpName(op) == IF op = "**" THEN "** or pow()" ELSE op

Unsupported(op, a, b) ==
    Raise("TypeError",
          "unsupported operand type(s) for " \o OpName(op) \o ": '"
              \o TypeName(a) \o "' and '" \o TypeName(b) \o "'")

IntBinOp(op, a, b) ==
    CASE op = "+" -> OkInt(a + b)
      [] op = "-" -> OkInt(a - b)
      [] op = "*" -> OkInt(a * b)
      [] op = "/" ->
            IF b = 0 THEN Raise("ZeroDivisionError", "division by zero")
            ELSE OkFloat(a * Sign(b), Abs(b))
      [] op = "//" ->
            IF b = 0
            THEN Raise("ZeroDivisionError", "integer division or modulo by zero")
            ELSE OkInt(PyFloorDiv(a, b))
      [] op = "%" ->
            IF b = 0
            THEN Raise("ZeroDivisionError", "integer division or modulo by zero")
            ELSE OkInt(PyMod(a, b))
      [] op = "**" ->
            IF b >= 0 THEN OkInt(IntPow(a, b))
            ELSE FloatPow(FloatV(a, 1), FloatV(b, 1))

FloatBinOp(op, a, b) ==
    CASE op = "+" -> FloatAdd(a, b)
      [] op = "-" -> FloatSub(a, b)
      [] op = "*" -> FloatMul(a, b)
      [] op = "/" ->
            IF FloatIsZero(b)
            THEN Raise("ZeroDivisionError", "float division by zero")
            ELSE FloatTrueDiv(a, b)
      [] op = "//" ->
            IF FloatIsZero(b)
            THEN Raise("ZeroDivisionError", "float floor division by zero")
            ELSE FloatFloorDiv(a, b)
      [] op = "%" ->
            IF FloatIsZero(b)
            THEN Raise("ZeroDivisionError", "float modulo")
            ELSE FloatMod(a, b)
      [] op = "**" -> FloatPow(a, b)

ComplexBinOp(op, a, b) ==
    CASE op \in {"+", "-"} ->
            LET re == FloatBinOp(op, a.re, b.re)
                im == FloatBinOp(op, a.im, b.im)
            IN  IF re.exc # "" THEN re
                ELSE IF im.exc # "" THEN im
                ELSE Ok(ComplexV(re.val, im.val))
      [] op = "/" ->
            IF IsZero(b)
            THEN Raise("ZeroDivisionError", "complex division by zero")
            ELSE Unmodelled
      [] OTHER -> Unmodelled

BinOp(op, a, b) ==
    CASE a.t = "str" \/ b.t = "str" -> Unmodelled
      [] ~IsNumber(a) \/ ~IsNumber(b) -> Unsupported(op, a, b)
      [] IsComplex(a) \/ IsComplex(b) ->
            IF op \in {"//", "%"} THEN Unsupported(op, a, b)
            ELSE ComplexBinOp(op, ToComplex(a), ToComplex(b))
      [] IsFloat(a) \/ IsFloat(b) -> FloatBinOp(op, ToFloat(a), ToFloat(b))
      [] OTHER -> IntBinOp(op, a.n, b.n)

UnaryOp(op, a) ==
    CASE ~IsNumber(a) ->
            Raise("TypeError",
                  "bad operand type for unary " \o op \o ": '" \o TypeName(a) \o "'")
      [] op = "+" -> Ok(a)
      [] IsInt(a) -> OkInt(-a.n)
      [] IsFloat(a) -> FloatNeg(a)
      [] OTHER ->
            LET re == FloatNeg(a.re)
                im == FloatNeg(a.im)
            IN  IF re.exc # "" THEN re
                ELSE IF im.exc # "" THEN im
                ELSE Ok(ComplexV(re.val, im.val))

-----------------------------------------------------------------------------
(* The builtins the formatter uses: abs, round, int, str, float. *)

\* abs(f) for a float.
FloatAbs(f) ==
    CASE f.k = "ninf" -> Inf
      [] f.k = "fin" -> IF FloatSign(f) < 0 THEN FloatE(-f.n, f.d, -f.e) ELSE f
      [] OTHER -> f

\* abs(f) < 1e-10
AbsBelowEps(f) == f.k = "fin" /\ f.n = 0 /\ Abs(f.e) < Eps

\* The integer nearest to the finite float f, ties to the even one.
NearestInt(f) ==
    LET q == f.n \div f.d
        r == f.n % f.d
    IN  CASE 2 * r < f.d -> q
          [] 2 * r > f.d -> q + 1
          [] f.e > 0 -> q + 1
          [] f.e < 0 -> q
          [] OTHER -> IF q % 2 = 0 THEN q ELSE q + 1

\* round(f): an int, or the exception of an infinity or a nan.
PyRound(f) ==
    CASE f.k = "fin" -> Ok(IntV(NearestInt(f)))
      [] f.k = "nan" -> Raise("ValueError", "cannot convert float NaN to integer")
      [] f.k \in {"inf", "ninf"} ->
            Raise("OverflowError", "cannot convert float infinity to integer")
      [] f.k = "tau" -> Ok(IntV(6))
      [] OTHER -> Ok(IntV(3))

\* The floor of the finite float f >= 0.
FloorNonNeg(f) ==
    LET q == f.n \div f.d
    IN  IF f.n % f.d = 0 /\ f.e < 0 THEN q - 1 ELSE q

\* int(f): truncation towards zero.
PyInt(f) ==
    CASE f.k = "fin" ->
            IF FloatSign(f) >= 0 THEN Ok(IntV(FloorNonNeg(f)))
            ELSE Ok(IntV(-FloorNonNeg(FloatAbs(f))))
      [] f.k = "nan" -> Raise("ValueError", "cannot convert float NaN to integer")
      [] f.k \in {"inf", "ninf"} ->
            Raise("OverflowError", "cannot convert float infinity to integer")
      [] f.k = "tau" -> Ok(IntV(6))
      [] f.k = "e" -> Ok(IntV(2))
      [] OTHER -> Ok(IntV(3))

\* abs(f - round(f)) < 1e-10, or the exception round raises.
RoundDiffBelowEps(f) ==
    LET r == PyRound(f)
    IN  IF r.exc # "" THEN r
        ELSE Ok(f.k = "fin" /\ f.n = r.val.n * f.d /\ Abs(f.e) < Eps)

\* f == n for a float f and an integer n.
FloatEqInt(f, n) == f.k = "fin" /\ f.e = 0 /\ f.d = 1 /\ f.n = n

\* The digits d.ddd of the mantissa m.
Mantissa(m) ==
    LET L == NumDigits(m)
    IN  IF L = 1 THEN Digit(m)
        ELSE Digit(m \div Pow10(L - 1)) \o "." \o PadStr(m % Pow10(L - 1), L - 1)

\* repr of the finite float f > 0: I + fr/10^4 + g/10^11 after the borrows.
PosFloatStr(f) ==
    LET q == f.n \div f.d
        fr0 == ((f.n % f.d) * FracScale) \div f.d
        g == IF f.e < 0 THEN f.e + TinyScale ELSE f.e
        fr1 == IF f.e < 0 THEN fr0 - 1 ELSE fr0
        fr == IF fr1 < 0 THEN fr1 + FracScale ELSE fr1
        I == IF fr1 < 0 THEN q - 1 ELSE q
    IN  IF I = 0 /\ fr = 0
        THEN Mantissa(StripZeros(g)) \o "e-"
                 \o PadStr(11 - TrailingZeros(g) - (NumDigits(StripZeros(g)) - 1), 2)
        ELSE IntStr(I) \o "." \o
             (IF g = 0
              THEN IF fr = 0 THEN "0"
                   ELSE PadStr(StripZeros(fr), 4 - TrailingZeros(fr))
              ELSE PadStr(fr, 4) \o PadStr(StripZeros(g), 7 - TrailingZeros(g)))

\* str(f) for a float.
FloatStr(f) ==
    CASE f.k = "inf" -> "inf"
      [] f.k = "ninf" -> "-inf"
      [] f.k = "nan" -> "nan"
      [] f.k = "pi" -> "3.141592653589793"
      [] f.k = "e" -> "2.718281828459045"
      [] f.k = "tau" -> "6.283185307179586"
      [] OTHER ->
            IF FloatIsZero(f) THEN "0.0"
            ELSE IF FloatSign(f) < 0 THEN "-" \o PosFloatStr(FloatAbs(f))
            ELSE PosFloatStr(f)

\* Whether str(v) is modelled: not so for an object printed with its address.
HasStr(v) == v.t \in {"int", "float", "NoneType", "str", "builtin", "class"}

\* str(v) for a value that is not a complex.
PyStr(v) ==
    CASE IsInt(v) -> IntStr(v.n)
      [] IsFloat(v) -> FloatStr(v)
      [] v.t = "NoneType" -> "None"
      [] v.t = "str" -> v.s
      [] v.t = "builtin" -> "<built-in function " \o v.name \o ">"
      [] v.t = "class" -> "<class '" \o v.name \o "'>"

-----------------------------------------------------------------------------
(* The formatter, lines 92-122. *)

\* Lines 95-100 and 115-120: zero, a near integer, or the decimal text.
SnapReal(real_part) ==
    IF AbsBelowEps(real_part) THEN Ok(StrV("0"))
    ELSE LET near == RoundDiffBelowEps(real_part)
         IN  IF near.exc # "" THEN near
             ELSE IF near.val
             THEN Ok(StrV(IntStr(PyRound(real_part).val.n)))
             ELSE Ok(StrV(FloatStr(real_part)))

\* Lines 102 and 103: str(int(x)) if abs(x - round(x)) < 1e-10 else str(x).
PartStr(x) ==
    LET near == RoundDiffBelowEps(x)
    IN  IF near.exc # "" THEN near
        ELSE IF near.val THEN Ok(StrV(IntStr(PyInt(x).val.n)))
        ELSE Ok(StrV(FloatStr(x)))

\* float(imag_str) of line 111: the number that imag_str spells.
FloatOfPartStr(x) ==
    IF RoundDiffBelowEps(x).val THEN ToFloat(PyInt(x).val) ELSE x

\* Line 106.
ImagOnly(imag, imag_str) ==
    IF ~FloatEqInt(imag, 1) THEN imag_str \o "j"
    ELSE IF FloatEqInt(imag, 1) THEN "j" ELSE "-j"

\* Lines 108-111.
ImagPart(imag, imag_str) ==
    IF FloatSign(imag) >= 0
    THEN IF ~FloatEqInt(imag, 1) THEN " + " \o imag_str \o "j" ELSE " + j"
    ELSE IF ~FloatEqInt(imag, -1)
         THEN " - " \o FloatStr(FloatAbs(FloatOfPartStr(imag))) \o "j"
         ELSE " - j"

\* Lines 101-112: a complex with a proper imaginary part.
FormatTrueComplex(z) ==
    LET real_str == PartStr(z.re)
        imag_str == PartStr(z.im)
    IN  IF real_str.exc # "" THEN real_str
        ELSE IF imag_str.exc # "" THEN imag_str
        ELSE IF FloatIsZero(z.re)
        THEN Ok(StrV(ImagOnly(z.im, imag_str.val.s)))
        ELSE Ok(StrV(real_str.val.s \o ImagPart(z.im, imag_str.val.s)))

\* Lines 92-122: the text of a value, or the exception formatting raises.
Format(v) ==
    CASE IsComplex(v) ->
            IF AbsBelowEps(v.im) THEN SnapReal(v.re) ELSE FormatTrueComplex(v)
      [] IsFloat(v) -> SnapReal(v)
      [] HasStr(v) -> Ok(StrV(PyStr(v)))
      [] OTHER -> Unmodelled

-----------------------------------------------------------------------------
(* The except clauses, lines 124-135. *)

\* The exception classes that derive from Exception.
ExceptionClasses ==
    {"ZeroDivisionError", "ValueError", "OverflowError", "TypeError",
     "SyntaxError", "NameError", "AttributeError", "KeyError"}

\* The exception classes that derive from BaseException only.
PropagatingClasses == {"SystemExit"}

\* HandlerOf with the clause for Exception written first: it takes every class.
HandlerOf_ExceptionFirst(exc) ==
    IF exc \in ExceptionClasses THEN "Exception" ELSE ""

\* The first except clause that matches the class.
HandlerOf(exc) ==
    CASE exc = "ZeroDivisionError" -> "ZeroDivisionError"
      [] exc = "ValueError" -> "ValueError"
      [] exc = "OverflowError" -> "OverflowError"
      [] exc = "TypeError" -> "TypeError"
      [] exc = "SyntaxError" -> "SyntaxError"
      [] exc \in ExceptionClasses -> "Exception"
      [] OTHER -> ""

\* The text an except clause returns.
HandlerText(h, msg) ==
    CASE h = "ZeroDivisionError" -> "Error: Division by zero"
      [] h = "ValueError" -> "Error: Invalid mathematical operation - " \o msg
      [] h = "OverflowError" -> "Error: Result too large to compute"
      [] h = "TypeError" -> "Error: Invalid expression type - " \o msg
      [] h = "SyntaxError" -> "Error: Invalid mathematical expression syntax"
      [] h = "Exception" -> "Error: " \o msg

-----------------------------------------------------------------------------
(* Tokens.  A token is the text between two blanks of the expression. *)

AddOps == {"+", "-"}
MulOps == {"*", "/", "//", "%"}
PowOp == "**"

\* The values int() reads from the integer literals of the model.
IntLitRange == (0..MaxLit) \cup {16, 1000}

IntLits == {IntStr(i) : i \in IntLitRange}

\* float() of the float literals of the model (1e999 is beyond a double).
FloatLitValue ==
    [s \in {"0.0", "0.5", "2.0", "2.5", "1e-11", "5e-11", "2e-10",
            "1.00000000001", "0.99999999999", "2.99999999999",
            "3.00000000005", "2.9999999998", "2.50000000001", "1e999"} |->
        CASE s = "0.0" -> FloatV(0, 1)
          [] s = "0.5" -> FloatV(1, 2)
          [] s = "2.0" -> FloatV(2, 1)
          [] s = "2.5" -> FloatV(5, 2)
          [] s = "1e-11" -> FloatE(0, 1, 1)
          [] s = "5e-11" -> FloatE(0, 1, 5)
          [] s = "2e-10" -> FloatE(0, 1, 20)
          [] s = "1.00000000001" -> FloatE(1, 1, 1)
          [] s = "0.99999999999" -> FloatE(1, 1, -1)
          [] s = "2.99999999999" -> FloatE(3, 1, -1)
          [] s = "3.00000000005" -> FloatE(3, 1, 5)
          [] s = "2.9999999998" -> FloatE(3, 1, -20)
          [] s = "2.50000000001" -> FloatE(5, 2, 1)
          [] s = "1e999" -> Inf]

FloatLits == DOMAIN FloatLitValue

\* The imaginary literals.
ImagLitValue ==
    [s \in {"1j", "2j"} |->
        ComplexV(FloatV(0, 1), FloatV(IF s = "1j" THEN 1 ELSE 2, 1))]

ImagLits == DOMAIN ImagLitValue

\* The string literals, with the string each denotes.
StrLitValue ==
    [s \in {"'pi'", "'e'", "'os'", "'math'", "'foo'"} |->
        CASE s = "'pi'" -> "pi" [] s = "'e'" -> "e" [] s = "'os'" -> "os"
          [] s = "'math'" -> "math" [] s = "'foo'" -> "foo"]

StrLits == DOMAIN StrLitValue

\* The functions safe_dict takes from the module math, lines 55-68.
MathFunctions ==
    {"sin", "cos", "tan", "asin", "acos", "atan", "atan2", "sinh", "cosh",
     "tanh", "asinh", "acosh", "atanh", "log", "log10", "log2", "ln", "exp",
     "ceil", "floor", "trunc", "degrees", "radians", "factorial", "gcd", "lcm"}

\* The name math.<f> of the function bound to a key of safe_dict.
MathName(key) == IF key = "ln" THEN "log" ELSE key

CmathFunctions == {"sqrt", "phase", "polar", "rect"}
Builtins == {"pow", "abs", "round"}
Lambdas == {"cbrt", "real", "imag", "conjugate"}
MathConstants == {"pi", "e", "tau", "inf", "nan"}

\* The keys of safe_dict, lines 53-82.
SafeNames ==
    MathFunctions \cup CmathFunctions \cup Builtins \cup Lambdas
        \cup MathConstants \cup {"complex", "__builtins__"}

\* The identifiers that occur in the expressions of the model.
Identifiers ==
    SafeNames \cup {"foo", "bar", "__self__", "__globals__", "__setattr__",
                    "sys", "exit"}

NumValue(tok) ==
    CASE tok \in IntLits -> IntV(CHOOSE i \in IntLitRange : IntStr(i) = tok)
      [] tok \in FloatLits -> FloatLitValue[tok]
      [] tok \in ImagLits -> ImagLitValue[tok]

IsNumber_tok(tok) == tok \in IntLits \cup FloatLits \cup ImagLits

\* The tokens the lexer accepts.
Lexemes ==
    AddOps \cup MulOps \cup {PowOp, "(", ")", ",", ".", "[", "]"}
        \cup IntLits \cup FloatLits \cup ImagLits \cup StrLits \cup Identifiers

-----------------------------------------------------------------------------
(* Lines 85 and 86: ^ becomes **, mod becomes %.  (The code replaces the   *)
(* characters wherever they occur; no other token of the model contains    *)
(* them.)                                                                  *)

ReplaceToken(tok) ==
    CASE tok = "^" -> "**"
      [] tok = "mod" -> "%"
      [] OTHER -> tok

Replace(toks) == [i \in 1..Len(toks) |-> ReplaceToken(toks[i])]

-----------------------------------------------------------------------------
(* The parser of eval, line 89: Python's expression grammar.               *)
(*   sum:     sum ADDOP term | term              ADDOP: + -                *)
(*   term:    term MULOP factor | factor         MULOP: * / // %           *)
(*   factor:  ADDOP factor | power                                         *)
(*   power:   primary ** factor | primary                                  *)
(*   primary: primary . NAME | primary ( args ) | primary [ sum ] | atom   *)
(*   atom:    NAME | NUMBER | STRING | ( sum )                             *)
(***************************************************************************)

Const(v) == [op |-> "const", v |-> v]
Name(id) == [op |-> "name", id |-> id]
Bin(o, l, r) == [op |-> "bin", o |-> o, l |-> l, r |-> r]
Unary(o, x) == [op |-> "unary", o |-> o, x |-> x]
Call(f, args) == [op |-> "call", f |-> f, args |-> args]
Attr(x, id) == [op |-> "attr", x |-> x, id |-> id]
Subscript(x, i) == [op |-> "subscript", x |-> x, i |-> i]

Parsed(ast, rest) == [ok |-> TRUE, ast |-> ast, rest |-> rest]
NoParse == [ok |-> FALSE, ast |-> [op |-> "none"], rest |-> <<>>]

Peek(ts) == IF ts = <<>> THEN "" ELSE Head(ts)

RECURSIVE ParseSum(_), ParseSumRest(_, _), ParseTerm(_), ParseTermRest(_, _)
RECURSIVE ParseFactor(_), ParsePower(_), ParsePrimary(_), ParsePrimaryRest(_, _)
RECURSIVE ParseAtom(_), ParseArgs(_, _)

\* ( sum ): the closing parenthesis after the inner expression.
CloseGroup(inner) ==
    IF inner.ok /\ Peek(inner.rest) = ")"
    THEN Parsed(inner.ast, Tail(inner.rest))
    ELSE NoParse

ParseAtom(ts) ==
    CASE IsNumber_tok(Peek(ts)) -> Parsed(Const(NumValue(Head(ts))), Tail(ts))
      [] Peek(ts) \in StrLits -> Parsed(Const(StrV(StrLitValue[Head(ts)])), Tail(ts))
      [] Peek(ts) \in Identifiers -> Parsed(Name(Head(ts)), Tail(ts))
      [] Peek(ts) = "(" -> CloseGroup(ParseSum(Tail(ts)))
      [] OTHER -> NoParse

\* What follows one argument: the end of the call, or the next argument.
AfterArg(arg, acc) ==
    CASE ~arg.ok -> NoParse
      [] Peek(arg.rest) = ")" -> Parsed(Append(acc, arg.ast), Tail(arg.rest))
      [] Peek(arg.rest) = "," -> ParseArgs(Tail(arg.rest), Append(acc, arg.ast))
      [] OTHER -> NoParse

\* The arguments of a call after its "(" up to and with its ")".
ParseArgs(ts, acc) ==
    IF Peek(ts) = ")" /\ acc = <<>> THEN Parsed(acc, Tail(ts))
    ELSE AfterArg(ParseSum(ts), acc)

AfterCallArgs(left, args) ==
    IF args.ok THEN ParsePrimaryRest(Call(left, args.ast), args.rest) ELSE NoParse

AfterIndex(left, idx) ==
    IF idx.ok /\ Peek(idx.rest) = "]"
    THEN ParsePrimaryRest(Subscript(left, idx.ast), Tail(idx.rest))
    ELSE NoParse

ParsePrimaryRest(left, ts) ==
    CASE Peek(ts) = "." ->
            IF Len(ts) >= 2 /\ ts[2] \in Identifiers
            THEN ParsePrimaryRest(Attr(left, ts[2]), Tail(Tail(ts)))
            ELSE NoParse
      [] Peek(ts) = "(" -> AfterCallArgs(left, ParseArgs(Tail(ts), <<>>))
      [] Peek(ts) = "[" -> AfterIndex(left, ParseSum(Tail(ts)))
      [] OTHER -> Parsed(left, ts)

AfterAtom(atom) ==
    IF atom.ok THEN ParsePrimaryRest(atom.ast, atom.rest) ELSE NoParse

ParsePrimary(ts) == AfterAtom(ParseAtom(ts))

\* The exponent is a factor: it takes its own sign and the powers after it.
AfterExponent(base, exponent) ==
    IF exponent.ok
    THEN Parsed(Bin(PowOp, base.ast, exponent.ast), exponent.rest)
    ELSE NoParse

AfterBase(base) ==
    IF base.ok /\ Peek(base.rest) = PowOp
    THEN AfterExponent(base, ParseFactor(Tail(base.rest)))
    ELSE base

ParsePower(ts) == AfterBase(ParsePrimary(ts))

AfterSign(o, operand) ==
    IF operand.ok THEN Parsed(Unary(o, operand.ast), operand.rest) ELSE NoParse

\* ParseFactor with the sign taken before the power: the signed primary is
\* the base.
ParseFactor_SignBeforePower(ts) ==
    IF Peek(ts) \in AddOps
    THEN AfterBase(AfterSign(Head(ts), ParsePrimary(Tail(ts))))
    ELSE ParsePower(ts)

\* A sign applies to the factor after it, which holds the power.
ParseFactor(ts) ==
    IF Peek(ts) \in AddOps THEN AfterSign(Head(ts), ParseFactor(Tail(ts)))
    ELSE ParsePower(ts)

AfterMulOperand(o, left, right) ==
    IF right.ok THEN ParseTermRest(Bin(o, left, right.ast), right.rest) ELSE NoParse

ParseTermRest(left, ts) ==
    IF Peek(ts) \in MulOps
    THEN AfterMulOperand(Head(ts), left, ParseFactor(Tail(ts)))
    ELSE Parsed(left, ts)

AfterFirstFactor(first) ==
    IF first.ok THEN ParseTermRest(first.ast, first.rest) ELSE NoParse

ParseTerm(ts) == AfterFirstFactor(ParseFactor(ts))

AfterAddOperand(o, left, right) ==
    IF right.ok THEN ParseSumRest(Bin(o, left, right.ast), right.rest) ELSE NoParse

\* ParseSumRest with one level for all of + - * / // %, taken left to right.
ParseSumRest_FlatPrecedence(left, ts) ==
    IF Peek(ts) \in AddOps \cup MulOps
    THEN AfterAddOperand(Head(ts), left, ParseFactor(Tail(ts)))
    ELSE Parsed(left, ts)

ParseSumRest(left, ts) ==
    IF Peek(ts) \in AddOps
    THEN AfterAddOperand(Head(ts), left, ParseTerm(Tail(ts)))
    ELSE Parsed(left, ts)

AfterFirstTerm(first) ==
    IF first.ok THEN ParseSumRest(first.ast, first.rest) ELSE NoParse

ParseSum(ts) == AfterFirstTerm(ParseTerm(ts))

WholeText(whole) == IF whole.ok /\ whole.rest = <<>> THEN whole ELSE NoParse

\* The whole text must be one expression.
Parse(ts) == WholeText(ParseSum(ts))

-----------------------------------------------------------------------------
(* The namespace, lines 53-82, and the objects reachable from it. *)

\* The module math as imported at line 5.
MathInit ==
    [pi |-> Special("pi"), e |-> Special("e"), tau |-> Special("tau"),
     inf |-> Inf, nan |-> NaN]

\* safe_dict as the call builds it from the module math as it is then.
safe_dict(m) ==
    [key \in SafeNames |->
        CASE key \in MathConstants -> m[key]
          [] key \in MathFunctions -> Obj("builtin", MathName(key))
          [] key \in CmathFunctions \cup Builtins -> Obj("builtin", key)
          [] key \in Lambdas -> Obj("lambda", key)
          [] key = "complex" -> Obj("class", "complex")
          [] OTHER -> Obj("dict", "__builtins__")]

\* The module globals of server.py that the model follows, lines 4-6.
GlobalModules == {"os", "math", "cmath"}

\* The other names bound at the top level of server.py, lines 1-30.
GlobalNames ==
    GlobalModules \cup
    {"load_dotenv", "FastMCP", "TavilyClient", "qrcode", "io", "base64",
     "DiceRoller", "mcp", "client", "web_search", "roll_dice",
     "scientific_calculator", "generate_qr_code"}

\* x.id
GetAttr(x, id) ==
    CASE x.t = "builtin" /\ x.name \in {MathName(k) : k \in MathFunctions}
             /\ id = "__self__" -> Ok(Obj("module", "math"))
      [] x.t = "lambda" /\ id = "__globals__" -> Ok(Obj("dict", "globals"))
      [] x.t = "module" /\ x.name = "math" /\ id = "__setattr__" ->
            Ok(Obj("method", "math.__setattr__"))
      [] x.t = "module" /\ x.name = "os" /\ id = "sys" -> Ok(Obj("module", "sys"))
      [] x.t = "module" /\ x.name = "sys" /\ id = "exit" -> Ok(Obj("builtin", "exit"))
      [] OTHER -> Unmodelled

\* x[i]
GetItem(x, i) ==
    CASE x.t = "dict" /\ x.name = "globals" /\ i.t = "str" ->
            IF i.s \in GlobalModules THEN Ok(Obj("module", i.s))
            ELSE IF i.s \in GlobalNames THEN Unmodelled
            ELSE Raise("KeyError", "'" \o i.s \o "'")
      [] OTHER -> Unmodelled

-----------------------------------------------------------------------------
(* The functions of the namespace. *)

IsReal(v) == v.t \in {"int", "float"}

\* The root of a perfect square n >= 0, or -1.
IntSqrt(n) ==
    IF \E r \in 0..Abs(n) : r * r = n
    THEN CHOOSE r \in 0..Abs(n) : r * r = n
    ELSE -1

\* cmath.sqrt of a real that has an exact root.
CmathSqrt(x) ==
    LET f == ToFloat(x)
        rn == IntSqrt(Abs(f.n))
        rd == IntSqrt(f.d)
    IN  CASE f.k = "inf" -> Ok(ComplexV(Inf, FloatV(0, 1)))
          [] ~IsExact(f) \/ rn < 0 \/ rd < 0 -> Unmodelled
          [] f.n >= 0 -> Ok(ComplexV(FloatV(rn, rd), FloatV(0, 1)))
          [] OTHER -> Ok(ComplexV(FloatV(0, 1), FloatV(rn, rd)))

\* math.log of one real.
MathLog(x) ==
    LET f == ToFloat(x)
    IN  CASE f.k = "nan" -> Ok(NaN)
          [] f.k = "inf" -> Ok(Inf)
          [] IsIrrational(f) -> Unmodelled
          [] FloatSign(f) <= 0 -> Raise("ValueError", "math domain error")
          [] FloatEqInt(f, 1) -> Ok(FloatV(0, 1))
          [] OTHER -> Unmodelled

\* math.exp of one real.
MathExp(x) ==
    LET f == ToFloat(x)
    IN  CASE FloatIsZero(f) -> Ok(FloatV(1, 1))
          [] IsExact(f) /\ f.n >= ExpOverflowArg * f.d ->
                Raise("OverflowError", "math range error")
          [] OTHER -> Unmodelled

\* acc * i * (i+1) * ... * n; IntCap + 1 once the range is left.
RECURSIVE FactAcc(_, _, _)
FactAcc(i, n, acc) ==
    IF i > n THEN acc
    ELSE IF acc * i > IntCap THEN IntCap + 1
    ELSE FactAcc(i + 1, n, acc * i)

Fact(n) == FactAcc(1, n, 1)

\* math.factorial of one argument.
MathFactorial(x) ==
    CASE IsInt(x) ->
            IF x.n < 0
            THEN Raise("ValueError", "factorial() not defined for negative values")
            ELSE OkInt(Fact(x.n))
      [] IsFloat(x) ->
            Raise("TypeError", "'float' object cannot be interpreted as an integer")
      [] OTHER -> Unmodelled

\* abs of one argument.
PyAbs(x) ==
    CASE IsInt(x) -> Ok(IntV(Abs(x.n)))
      [] IsFloat(x) -> Ok(FloatAbs(x))
      [] OTHER -> Unmodelled

\* complex(...) of reals.
PyComplex(args) ==
    CASE Len(args) = 0 -> Ok(ComplexV(FloatV(0, 1), FloatV(0, 1)))
      [] Len(args) = 1 /\ IsNumber(args[1]) -> Ok(ToComplex(args[1]))
      [] Len(args) = 2 /\ IsReal(args[1]) /\ IsReal(args[2]) ->
            Ok(ComplexV(ToFloat(args[1]), ToFloat(args[2])))
      [] OTHER -> Unmodelled

OneArgument(qualified, args) ==
    Raise("TypeError",
          qualified \o "() takes exactly one argument ("
              \o IntStr(Len(args)) \o " given)")

\* A call of a function of the math modules or a builtin, by its name.
CallBuiltin(name, args) ==
    CASE name = "pow" ->
            IF Len(args) = 2 THEN BinOp(PowOp, args[1], args[2]) ELSE Unmodelled
      [] name = "log" /\ Len(args) = 0 ->
            Raise("TypeError", "math.log requires 1 to 2 arguments")
      [] name = "log" /\ Len(args) = 2 -> Unmodelled
      [] name = "exit" -> Raise("SystemExit", "")
      [] name \in {"sqrt", "abs", "log", "exp", "factorial", "sin"}
             /\ Len(args) # 1 ->
            OneArgument(CASE name = "sqrt" -> "cmath.sqrt"
                          [] name = "abs" -> "abs"
                          [] OTHER -> "math." \o name, args)
      [] name = "sqrt" /\ IsReal(args[1]) -> CmathSqrt(args[1])
      [] name = "log" /\ IsReal(args[1]) -> MathLog(args[1])
      [] name = "exp" /\ IsReal(args[1]) -> MathExp(args[1])
      [] name = "sin" /\ IsReal(args[1]) ->
            IF IsZero(args[1]) THEN Ok(FloatV(0, 1)) ELSE Unmodelled
      [] name = "factorial" -> MathFactorial(args[1])
      [] name = "abs" -> PyAbs(args[1])
      [] OTHER -> Unmodelled

WithMath(out, m) == [exc |-> out.exc, msg |-> out.msg, val |-> out.val, m |-> m]

\* f(*args) in the process whose module math is m.
Apply(f, args, m) ==
    CASE f.t = "builtin" -> WithMath(CallBuiltin(f.name, args), m)
      [] f.t = "class" -> WithMath(PyComplex(args), m)
      [] f.t = "method" ->
            IF Len(args) = 2 /\ args[1].t = "str" /\ args[1].s \in MathConstants
                   /\ IsNumber(args[2])
            THEN WithMath(Ok(None), [m EXCEPT ![args[1].s] = args[2]])
            ELSE WithMath(Unmodelled, m)
      [] f.t \in {"int", "float", "complex", "str", "NoneType", "module", "dict"} ->
            WithMath(Raise("TypeError",
                           "'" \o TypeName(f) \o "' object is not callable"), m)
      [] OTHER -> WithMath(Unmodelled, m)

-----------------------------------------------------------------------------
(* The evaluation of eval, line 89: operands from left to right, the       *)
(* function before its arguments, the first exception ends it.             *)

RECURSIVE Eval(_, _, _), EvalArgs(_, _, _, _)

AfterFirstArg(first, args, ns, acc) ==
    IF first.exc # "" THEN first
    ELSE EvalArgs(Tail(args), ns, first.m, Append(acc, first.val))

\* The values of the arguments, in order; val is the sequence of them.
EvalArgs(args, ns, m, acc) ==
    IF args = <<>> THEN WithMath(Ok(acc), m)
    ELSE AfterFirstArg(Eval(Head(args), ns, m), args, ns, acc)

EvalName(id, ns, m) ==
    IF id \in DOMAIN ns THEN WithMath(Ok(ns[id]), m)
    ELSE WithMath(Raise("NameError", "name '" \o id \o "' is not defined"), m)

AfterOperand(o, x) ==
    IF x.exc # "" THEN x ELSE WithMath(UnaryOp(o, x.val), x.m)

AfterRight(o, l, r) ==
    IF r.exc # "" THEN r ELSE WithMath(BinOp(o, l.val, r.val), r.m)

\* The right operand is evaluated only if the left one raised nothing.
AfterLeft(node, l, ns) ==
    IF l.exc # "" THEN l ELSE AfterRight(node.o, l, Eval(node.r, ns, l.m))

AfterArgs(f, args) ==
    IF args.exc # "" THEN args ELSE Apply(f.val, args.val, args.m)

\* The arguments are evaluated only if the function expression raised nothing.
AfterFunction(node, f, ns) ==
    IF f.exc # "" THEN f ELSE AfterArgs(f, EvalArgs(node.args, ns, f.m, <<>>))

\* An attribute; a constant of the module math is read as it is now.
AfterObject(id, x) ==
    IF x.exc # "" THEN x
    ELSE IF x.val.t = "module" /\ x.val.name = "math" /\ id \in MathConstants
    THEN WithMath(Ok(x.m[id]), x.m)
    ELSE WithMath(GetAttr(x.val, id), x.m)

AfterKey(x, i) ==
    IF i.exc # "" THEN i ELSE WithMath(GetItem(x.val, i.val), i.m)

AfterContainer(node, x, ns) ==
    IF x.exc # "" THEN x ELSE AfterKey(x, Eval(node.i, ns, x.m))

Eval(node, ns, m) ==
    CASE node.op = "const" -> WithMath(Ok(node.v), m)
      [] node.op = "name" -> EvalName(node.id, ns, m)
      [] node.op = "unary" -> AfterOperand(node.o, Eval(node.x, ns, m))
      [] node.op = "bin" -> AfterLeft(node, Eval(node.l, ns, m), ns)
      [] node.op = "call" -> AfterFunction(node, Eval(node.f, ns, m), ns)
      [] node.op = "attr" -> AfterObject(node.id, Eval(node.x, ns, m))
      [] node.op = "subscript" -> AfterContainer(node, Eval(node.x, ns, m), ns)

-----------------------------------------------------------------------------
(* scientific_calculator, lines 30-135. *)

EvalTree(tree, m) ==
    IF tree.ok THEN Eval(tree.ast, safe_dict(m), m)
    ELSE WithMath(Raise("SyntaxError", "invalid syntax"), m)

\* Lines 85-89: the value of the expression, or the exception.
Evaluate(expr, m) == EvalTree(Parse(Replace(expr)), m)

\* Lines 124-135: the text of the handler, or the exception propagates.
Handle(ev, fm, h) ==
    [result |-> ev.val,
     exc |-> fm.exc,
     handler |-> h,
     raised |-> fm.exc \in PropagatingClasses,
     text |-> CASE fm.exc = "" -> fm.val.s
                [] h # "" -> HandlerText(h, fm.msg)
                [] OTHER -> "",
     m |-> ev.m]

\* Lines 92-122 within the try block: an exception of eval skips them.
FormatResult(ev) == IF ev.exc = "" THEN Format(ev.val) ELSE ev

Formatted(ev, fm) == Handle(ev, fm, HandlerOf(fm.exc))

Evaluated(ev) == Formatted(ev, FormatResult(ev))

\* The whole call: what it returns or raises, and the module math after it.
scientific_calculator(expr, m) == Evaluated(Evaluate(expr, m))

-----------------------------------------------------------------------------
(* The expressions offered to the tool. *)

Lits == {IntStr(i) : i \in 0..MaxLit}
ChainLits == {IntStr(i) : i \in 2..MaxLit}
BinTokens == AddOps \cup MulOps \cup {PowOp, "^"}

\* a op b and a op b op c, plain and with one pair of parentheses.
Chains ==
    {<<a, o, b>> : a \in Lits, o \in BinTokens \cup {"mod"}, b \in Lits}
  \cup {<<a, o1, b, o2, c>> :
            a \in ChainLits, o1 \in BinTokens, b \in ChainLits,
            o2 \in BinTokens, c \in ChainLits}
  \cup {<<"(", a, o1, b, ")", o2, c>> :
            a \in {"2", "3"}, o1 \in BinTokens, b \in {"2", "3"},
            o2 \in BinTokens, c \in {"2", "3"}}
  \cup {<<a, o1, "(", b, o2, c, ")">> :
            a \in {"2", "3"}, o1 \in BinTokens, b \in {"2", "3"},
            o2 \in BinTokens, c \in {"2", "3"}}
  \cup {<<a, o1, b, o2, c, o3, d>> :
            a \in {"2"}, o1 \in BinTokens, b \in {"3"}, o2 \in BinTokens,
            c \in {"2"}, o3 \in BinTokens, d \in {"2", "3"}}

\* Signs before, inside and after a power or another operator.
Signed ==
    {<<u, a, o, b>> : u \in AddOps, a \in Lits, o \in BinTokens, b \in Lits}
  \cup {<<a, o, u, b>> : u \in AddOps, a \in Lits, o \in BinTokens, b \in Lits}
  \cup {<<"(", u, a, ")", o, b>> :
            u \in AddOps, a \in Lits, o \in {PowOp, "^"}, b \in Lits}
  \cup {<<u, "(", a, o, b, ")">> :
            u \in AddOps, a \in Lits, o \in {PowOp, "^"}, b \in Lits}
  \cup {<<u, a, o, v, b>> :
            u \in AddOps, a \in Lits, o \in {PowOp, "^"}, v \in AddOps, b \in Lits}
  \cup {<<u, v, a>> : u \in AddOps, v \in AddOps, a \in Lits}

\* The operands whose formatting the model follows.
Parts == FloatLits \cup ImagLits \cup {"0", "1", "2", "3", "inf", "nan", "pi"}
RealParts == Parts \ ImagLits

Values ==
    {<<x>> : x \in Parts \cup MathConstants}
  \cup {<<"-", x>> : x \in Parts}
  \cup {<<a, o, b>> : a \in RealParts, o \in MulOps \cup AddOps, b \in RealParts}
  \cup {<<"complex", "(", x, ",", y, ")">> : x \in RealParts, y \in RealParts}
  \cup {<<"complex", "(", "-", x, ",", y, ")">> : x \in RealParts, y \in RealParts}
  \cup {<<"complex", "(", x, ",", "-", y, ")">> : x \in RealParts, y \in RealParts}
  \cup {<<"complex", "(", "-", x, ",", "-", y, ")">> :
            x \in RealParts, y \in RealParts}
  \cup {<<a, o, b>> : a \in {"0", "1", "2"}, o \in AddOps, b \in ImagLits}

FunctionNames ==
    {"sqrt", "log", "ln", "exp", "factorial", "abs", "sin", "pow", "complex",
     "foo", "pi", "cbrt"}

Calls ==
    {<<f, "(", ")">> : f \in FunctionNames}
  \cup {<<f, "(", x, ")">> :
            f \in FunctionNames, x \in Lits \cup {"16", "1000", "0.5", "2.5", "inf"}}
  \cup {<<f, "(", "-", x, ")">> : f \in FunctionNames, x \in {"1", "2", "4"}}
  \cup {<<"-", f, "(", "-", x, ")">> : f \in {"sqrt", "abs"}, x \in {"1", "4"}}
  \cup {<<f, "(", x, ",", y, ")">> :
            f \in {"sqrt", "pow", "exp"}, x \in {"2", "0"}, y \in {"3", "-1"} \cap Lits}
  \cup {<<f>> : f \in {"sqrt", "log", "pow", "complex", "foo"}}
  \cup {<<"2", "(", "3", ")">>, <<"1j", "(", "3", ")">>}

\* Sub-expressions that fail, or do not, next to a call of an unknown name.
Operands ==
    {<<"2">>, <<"1", "/", "0">>, <<"(", "1", "//", "0", ")">>,
     <<"log", "(", "0", ")">>, <<"exp", "(", "1000", ")">>,
     <<"pi", "(", "2", ")">>, <<"inf">>}

UnknownCalls ==
    {<<"foo", "(", "2", ")">>, <<"bar", "(", ")">>, <<"foo", "(", "1", "/", "0", ")">>}

WithUnknown ==
    UnknownCalls
  \cup {x \o <<o>> \o u : x \in Operands, o \in {"+", "*", "/", "^"}, u \in UnknownCalls}
  \cup {u \o <<o>> \o x : x \in Operands, o \in {"+", "*", "/", "^"}, u \in UnknownCalls}
  \cup {<<"sqrt", "(">> \o x \o <<",">> \o u \o <<")">> :
            x \in Operands, u \in UnknownCalls}
  \cup {<<"sqrt", "(">> \o u \o <<")">> : u \in UnknownCalls}

Malformed ==
    {<<>>, <<"(">>, <<")">>, <<"2", "3">>, <<"2", "+">>, <<"*", "2">>,
     <<"(", "2", "+", "3">>, <<"2", "+", "3", ")">>, <<"sqrt", "(", "4">>,
     <<"2", "$", "3">>, <<"2", "**">>, <<"2", "mod">>, <<"^", "2">>}

\* Expressions that leave the namespace through an attribute of its objects.
Escapes ==
    {<<"sin", ".", "__self__", ".", "__setattr__", "(", k, ",", v, ")">> :
        k \in {"'pi'", "'e'"}, v \in {"3"}}
  \cup {<<"cbrt", ".", "__globals__", "[", "'math'", "]", ".", "__setattr__",
          "(", "'pi'", ",", "3", ")">>,
        <<"cbrt", ".", "__globals__", "[", "'os'", "]", ".", "sys", ".", "exit",
          "(", ")">>,
        <<"cbrt", ".", "__globals__", "[", "'foo'", "]">>,
        <<"sin", ".", "__self__", ".", "pi">>,
        <<"2", "*", "pi">>, <<"pi", "+", "e">>}

Inputs == Chains \cup Signed \cup Values \cup Calls \cup WithUnknown
              \cup Malformed \cup Escapes

\* The expressions whose outcome stays within the model's exact domain.
Modelled(expr, m) == scientific_calculator(expr, m).exc # "Unmodelled"

-----------------------------------------------------------------------------
(* The server: it takes a request, answers it, and takes the next one. *)

Init ==
    /\ math = MathInit
    /\ phase = "ready"
    /\ expression = <<>>
    /\ result = NoResult
    /\ handler = ""
    /\ output = ""

\* A call of the tool from its first line to its return, or to the
\* exception that leaves it.
CallTool(expr) ==
    /\ phase = "ready"
    /\ \E r \in {scientific_calculator(expr, math)} :
           /\ r.exc # "Unmodelled"
           /\ math' = r.m
           /\ phase' = IF r.raised THEN "raised" ELSE "returned"
           /\ expression' = expr
           /\ result' = r.result
           /\ handler' = r.handler
           /\ output' = r.text

\* The client takes the text and is free to call again.
Receive ==
    /\ phase = "returned"
    /\ phase' = "ready"
    /\ expression' = <<>>
    /\ result' = NoResult
    /\ handler' = ""
    /\ output' = ""
    /\ UNCHANGED math

Next == (\E expr \in Inputs : CallTool(expr)) \/ Receive

Spec == Init /\ [][Next]_vars

-----------------------------------------------------------------------------
(* Properties of the tool. *)

\* The text begins with the prefix.
StartsWith(text, prefix) ==
    Len(text) >= Len(prefix) /\ SubSeq(text, 1, Len(prefix)) = prefix

\* The text ends with the suffix.
EndsWith(text, suffix) ==
    /\ Len(text) >= Len(suffix)
    /\ SubSeq(text, Len(text) - Len(suffix) + 1, Len(text)) = suffix

\* The except clauses of lines 124-135.
FailureHandlers ==
    {"ZeroDivisionError", "ValueError", "OverflowError", "TypeError",
     "SyntaxError", "Exception"}

\* The call ended in an exception of eval or of the formatter.
Failed == phase = "raised" \/ (phase = "returned" /\ handler # "")

\* C1: every call returns a text and never raises; when evaluation or
\* formatting fails, the text begins with "Error: " and comes from exactly
\* one of the six failure handlers.
C1_TotalAtInterface ==
    /\ phase # "raised"
    /\ Failed => /\ handler \in FailureHandlers
                 /\ StartsWith(output, "Error: ")

\* The names called in the expression that safe_dict does not hold.
UnknownCalled(expr) ==
    {expr[i] : i \in {k \in 1..(Len(expr) - 1) :
                        /\ expr[k] \in Identifiers \ SafeNames
                        /\ expr[k + 1] = "("
                        /\ (k = 1 \/ expr[k - 1] # ".")}}

\* C2: an expression that calls a name outside the namespace ends in the
\* error of the unknown name, whatever its other sub-expressions would do,
\* also those that fail when they are evaluated before the call.
C2_UnknownNameFirst ==
    (phase = "returned" /\ UnknownCalled(expression) # {}) =>
        output \in {"Error: name '" \o id \o "' is not defined" :
                        id \in UnknownCalled(expression)}

\* C9: the output of a call depends on its expression alone: it is the
\* output the same expression has in the first call of the server, whatever
\* calls came before, which leave the namespace as it was.
C9_PureAcrossCalls ==
    /\ safe_dict(math) = safe_dict(MathInit)
    /\ (phase = "returned" /\ Modelled(expression, MathInit)) =>
           output = scientific_calculator(expression, MathInit).text

\* C10: when eval gives an int, a float or a complex, an infinity and a nan
\* among them, the call returns the text of the value: the formatter raises
\* nothing and no handler's text is returned.
C10_FormatterTotal ==
    (phase \in {"returned", "raised"} /\ IsNumber(result)) =>
        /\ phase = "returned"
        /\ handler = ""
        /\ ~StartsWith(output, "Error: ")

\* The result is a real value, or a complex one with |b| < 1e-10.
EssentiallyReal(v) ==
    IsInt(v) \/ IsFloat(v) \/ (IsComplex(v) /\ AbsBelowEps(v.im))

\* The result is a complex value with |b| >= 1e-10 and finite parts.
TrulyComplex(v) ==
    IsComplex(v) /\ ~AbsBelowEps(v.im) /\ IsFin(v.re) /\ IsFin(v.im)

\* The real value r of an essentially real result.
RealOf(v) == IF IsComplex(v) THEN v.re ELSE ToFloat(v)

\* r is within 1e-10 of the integer nearest to it.
NearInteger(r) ==
    r.k = "fin" /\ r.n = NearestInt(r) * r.d /\ Abs(r.e) < Eps

\* The rendering of a real value: "0", the nearest integer, or the decimal
\* text.
RealText(r) ==
    CASE r.k = "fin" /\ r.n = 0 /\ Abs(r.e) < Eps -> "0"
      [] NearInteger(r) -> IntStr(NearestInt(r))
      [] OTHER -> FloatStr(r)

\* C5: a result that is a real r, or a complex a+bj with |b| < 1e-10 and
\* r = a, is returned as "0" when |r| < 1e-10, as the nearest integer when r
\* is within 1e-10 of it, and as the decimal text of r otherwise, and the
\* text holds no imaginary term.
C5_RealRendering ==
    (phase \in {"returned", "raised"} /\ EssentiallyReal(result)) =>
        /\ output = RealText(RealOf(result))
        /\ ~EndsWith(output, "j")

\* C6: in the text of a complex a+bj with |b| >= 1e-10, b = 1 is written
\* as a bare j and b = -1 as a bare -j, with a zero real part and with
\* another one, and a zero real part leaves the imaginary term alone, with
\* no "0 + " before it.
C6_UnitImaginary ==
    (phase = "returned" /\ TrulyComplex(result)) =>
        /\ FloatEqInt(result.im, 1) =>
               IF FloatIsZero(result.re) THEN output = "j"
               ELSE EndsWith(output, " + j")
        /\ FloatEqInt(result.im, -1) =>
               IF FloatIsZero(result.re) THEN output = "-j"
               ELSE EndsWith(output, " - j")
        /\ FloatIsZero(result.re) =>
               ~StartsWith(output, "0 + ") /\ ~StartsWith(output, "0 - ")

\* The spellings of the coefficient |b|: the simplified number, and nothing
\* at all for a b of exactly 1 or -1 (either is taken here).
CoefficientTexts(b) ==
    {RealText(FloatAbs(b))}
        \cup (IF FloatEqInt(FloatAbs(b), 1) THEN {""} ELSE {})

\* The texts "<a> <sign> <|b|>j" of a complex, both parts simplified as a
\* real value is, the real part left out when it counts as zero.
ComplexTexts(z) ==
    IF AbsBelowEps(z.re)
    THEN {(IF FloatSign(z.im) < 0 THEN "-" ELSE "") \o c \o "j" :
             c \in CoefficientTexts(z.im)}
    ELSE {RealText(z.re) \o (IF FloatSign(z.im) < 0 THEN " - " ELSE " + ")
              \o c \o "j" : c \in CoefficientTexts(z.im)}

\* C7: in the text of a complex a+bj with |b| >= 1e-10 each part is
\* simplified as a real value is, whatever its sign and the other part: a
\* part within 1e-10 of an integer is written as that nearest integer with
\* no fraction, and a real part with |a| < 1e-10 counts as zero.
C7_PartsSimplified ==
    (phase = "returned" /\ TrulyComplex(result)) =>
        output \in ComplexTexts(result)

\* The text the tool returns for a syntax tree, in the first call.
TreeText(ast) == Evaluated(EvalTree(Parsed(ast, <<>>), MathInit)).text

\* The number of parentheses open before token i.
Depth(ts, i) ==
    Cardinality({k \in 1..(i - 1) : ts[k] = "("})
        - Cardinality({k \in 1..(i - 1) : ts[k] = ")"})

\* The places of the operators of a level outside every parenthesis.
TopLevel(ts, ops) ==
    {i \in 1..Len(ts) : ts[i] \in ops /\ Depth(ts, i) = 0}

Last(S) == CHOOSE i \in S : \A k \in S : k <= i
First(S) == CHOOSE i \in S : \A k \in S : i <= k

\* The tree standard precedence gives an expression of integer literals,
\* parentheses and binary operators: it is split at its last + or -, for
\* want of one at its last * / // or %, for want of one at its first power.
RECURSIVE Standard(_)
SplitAt(ts, i) ==
    LET l == Standard(SubSeq(ts, 1, i - 1))
        r == Standard(SubSeq(ts, i + 1, Len(ts)))
    IN  IF l.ok /\ r.ok
        THEN Parsed(Bin(IF ts[i] = "^" THEN PowOp ELSE ts[i], l.ast, r.ast), <<>>)
        ELSE NoParse

Standard(ts) ==
    CASE ts = <<>> -> NoParse
      [] Len(ts) = 1 ->
            IF ts[1] \in IntLits THEN Parsed(Const(NumValue(ts[1])), <<>>)
            ELSE NoParse
      [] TopLevel(ts, AddOps) # {} -> SplitAt(ts, Last(TopLevel(ts, AddOps)))
      [] TopLevel(ts, MulOps) # {} -> SplitAt(ts, Last(TopLevel(ts, MulOps)))
      [] TopLevel(ts, {PowOp, "^"}) # {} ->
            SplitAt(ts, First(TopLevel(ts, {PowOp, "^"})))
      [] ts[1] = "(" /\ ts[Len(ts)] = ")" -> Standard(SubSeq(ts, 2, Len(ts) - 1))
      [] OTHER -> NoParse

\* C3: an expression of integer literals, parentheses and binary operators
\* has the value standard precedence gives it: power before * / // %, these
\* before + and -, both of these levels from the left, power from the
\* right, and ^ for power.
C3_StandardPrecedence ==
    (phase = "returned" /\ Standard(expression).ok) =>
        output = TreeText(Standard(expression).ast)

\* 2 ^ 3 ^ 2 was called and gave 2 ** (3 ** 2).
C3_Witness ==
    /\ phase = "returned"
    /\ expression = <<"2", "^", "3", "^", "2">>
    /\ Standard(expression).ok
    /\ output = "512"

\* The expressions sign a power b, with a sign before b or none.
SignedPower(expr) ==
    /\ Len(expr) \in {4, 5}
    /\ expr[1] \in AddOps /\ expr[2] \in IntLits /\ expr[3] \in {PowOp, "^"}
    /\ IF Len(expr) = 4 THEN expr[4] \in IntLits
       ELSE expr[4] \in AddOps /\ expr[5] \in IntLits

\* The exponent of a signed power.
Exponent(expr) ==
    IF Len(expr) = 4 THEN Const(NumValue(expr[4]))
    ELSE Unary(expr[4], Const(NumValue(expr[5])))

\* C4, as the specification has it: a sign binds tighter than the power, so
\* -a ** b and -a ^ b have the value of (-a) ** b.
C4_SignBindsTighter ==
    (phase = "returned" /\ SignedPower(expression)) =>
        output = TreeText(Bin(PowOp, Unary(expression[1], Const(NumValue(expression[2]))),
                              Exponent(expression)))

\* C4, as the code has it: the power binds tighter than the sign before it,
\* so -a ** b and -a ^ b have the value of -(a ** b).
C4_PowerBindsTighter ==
    (phase = "returned" /\ SignedPower(expression)) =>
        output = TreeText(Unary(expression[1],
                                Bin(PowOp, Const(NumValue(expression[2])),
                                    Exponent(expression))))

\* - 2 ** 2 was called and gave -(2 ** 2).
C4_Witness ==
    /\ phase = "returned"
    /\ expression = <<"-", "2", "**", "2">>
    /\ output = "-4"

DivOps == {"/", "//", "%"}

\* Evaluating the tree comes to a division, a floor division or a modulo of
\* an int or a float by an int or a float that is zero.
RECURSIVE DividesByZero(_, _, _), ArgsDivideByZero(_, _, _)
DividesByZero(node, ns, m) ==
    CASE node.op = "bin" ->
            LET l == Eval(node.l, ns, m)
                r == Eval(node.r, ns, m)
            IN  \/ DividesByZero(node.l, ns, m)
                \/ /\ l.exc = ""
                   /\ \/ DividesByZero(node.r, ns, m)
                      \/ /\ r.exc = ""
                         /\ node.o \in DivOps
                         /\ IsReal(l.val) /\ IsReal(r.val) /\ IsZero(r.val)
      [] node.op = "unary" -> DividesByZero(node.x, ns, m)
      [] node.op = "call" ->
            \/ DividesByZero(node.f, ns, m)
            \/ Eval(node.f, ns, m).exc = "" /\ ArgsDivideByZero(node.args, ns, m)
      [] node.op = "attr" -> DividesByZero(node.x, ns, m)
      [] node.op = "subscript" ->
            \/ DividesByZero(node.x, ns, m)
            \/ Eval(node.x, ns, m).exc = "" /\ DividesByZero(node.i, ns, m)
      [] OTHER -> FALSE

ArgsDivideByZero(args, ns, m) ==
    /\ args # <<>>
    /\ \/ DividesByZero(Head(args), ns, m)
       \/ /\ Eval(Head(args), ns, m).exc = ""
          /\ ArgsDivideByZero(Tail(args), ns, m)

\* The call came to a division by zero.
DividedByZero ==
    /\ phase = "returned"
    /\ Parse(Replace(expression)).ok
    /\ DividesByZero(Parse(Replace(expression)).ast, safe_dict(math), math)

\* C8: a call that comes to a division, a floor division or a modulo of an
\* int or a float by zero returns "Error: Division by zero", from the
\* handler of that class and of no other, and no number.
C8_DivisionByZero ==
    DividedByZero =>
        /\ output = "Error: Division by zero"
        /\ handler = "ZeroDivisionError"
        /\ result = NoResult

\* 2.5 % 0.0 was called and was answered by the handler of division by zero.
C8_Witness ==
    /\ DividedByZero
    /\ expression = <<"2.5", "%", "0.0">>
    /\ output = "Error: Division by zero"

====
